---- MODULE Spec2Model ----
(***************************************************************************)
(* Matrix scan / debounce / modifier ref-counting core of the              *)
(* EvoCmdWingKeyboard firmware (src/src/Keysend.cpp).                      *)
(*                                                                         *)
(* One action per public operation (keyboardScan, keyboardReleaseAll);     *)
(* the helpers pressModifiers, releaseModifiers, handleKeyPress and        *)
(* handleKeyRelease are operators over a record holding the mutable state  *)
(* they touch.  The Keyboard transport is a set of codes that are down.    *)
(***************************************************************************)
EXTENDS Integers, Sequences, FiniteSets, TLC

(***************************************************************************)
(* Program constants                                                       *)
(***************************************************************************)
NUM_ROWS == 10

NUM_COLS == 14

DEBOUNCE_MS == 5

SCAN_INTERVAL_MS == 1

MOD_NONE == 0

MOD_LCTRL == 1

MOD_LALT == 2

MOD_LSHIFT == 4

\* uint16_t counters wrap modulo 2^16
UINT16_MOD == 65536

\* uint32_t lastChange, now: 2^32 = HALF_WORD * HALF_WORD
HALF_WORD == 65536

LOW == FALSE

HIGH == TRUE

\* Transport codes of the three modifiers
MODIFIERKEY_LEFT_CTRL == "MODIFIERKEY_LEFT_CTRL"

MODIFIERKEY_LEFT_ALT == "MODIFIERKEY_LEFT_ALT"

MODIFIERKEY_LEFT_SHIFT == "MODIFIERKEY_LEFT_SHIFT"

\* baseKey value 0 of KA_empty / KA_mod
NO_KEY == "NUL"

(***************************************************************************)
(* Bounds of the model                                                     *)
(***************************************************************************)
\* largest millis() value at which a scan is started
MaxNow == 12

\* largest number of milliseconds between the starts of two scans
MaxStep == 5

\* largest counter value reached by direct hold calls (ledger specification)
MaxRef == 4

\* SpecWrap starts this many ms before millis() wraps to 0
WrapLead == 6

(***************************************************************************)
(* Key actions and keymap                                                  *)
(***************************************************************************)
\* m & bit, for a single-bit mask
HasMod(m, bit) == (m \div bit) % 2 = 1

KA_empty == [valid |-> FALSE, modifierOnly |-> FALSE, baseKey |-> NO_KEY, mods |-> MOD_NONE]

KA_base(ascii) == [valid |-> TRUE, modifierOnly |-> FALSE, baseKey |-> ascii, mods |-> MOD_NONE]

KA_key(keycode) == [valid |-> TRUE, modifierOnly |-> FALSE, baseKey |-> keycode, mods |-> MOD_NONE]

KA_chord(ascii, m) == [valid |-> TRUE, modifierOnly |-> FALSE, baseKey |-> ascii, mods |-> m]

KA_chord_key(keycode, m) == [valid |-> TRUE, modifierOnly |-> FALSE, baseKey |-> keycode, mods |-> m]

KA_mod(m) == [valid |-> TRUE, modifierOnly |-> TRUE, baseKey |-> NO_KEY, mods |-> m]

C == MOD_LCTRL

A == MOD_LALT

\* keymap[r][c], rows and columns numbered from 0 as in the source
keymapRows ==
  <<
  (* Row 0 *)
  << KA_chord("p", A), KA_chord("n", A), KA_chord("h", A), KA_chord("o", C),
     KA_chord("u", C), KA_empty, KA_empty, KA_empty, KA_empty, KA_empty,
     KA_empty, KA_empty, KA_empty, KA_empty >>,
  (* Row 1 *)
  << KA_chord("f", A), KA_chord("u", A), KA_chord("g", A), KA_chord("m", C),
     KA_chord("c", C), KA_key("KEY_F1"), KA_key("KEY_F2"), KA_key("KEY_F3"),
     KA_key("KEY_F4"), KA_empty, KA_key("KEY_F5"), KA_key("KEY_F6"),
     KA_key("KEY_F7"), KA_key("KEY_F8") >>,
  (* Row 2 *)
  << KA_chord("f", A), KA_chord("d", A), KA_chord("b", A), KA_chord("d", C),
     KA_chord("l", C), KA_key("KEY_INSERT"), KA_key("KEY_HOME"),
     KA_key("KEY_PAGE_UP"), KA_key("KEY_F12"), KA_empty,
     KA_key("KEY_DELETE"), KA_key("KEY_END"), KA_key("KEY_PAGE_DOWN"),
     KA_key("KEYPAD_PLUS") >>,
  (* Row 3 *)
  << KA_empty, KA_empty, KA_chord("w", A), KA_chord("s", C),
     KA_chord("h", C), KA_empty, KA_empty, KA_empty, KA_empty, KA_empty,
     KA_empty, KA_empty, KA_empty, KA_empty >>,
  (* Row 4 *)
  << KA_empty, KA_empty, KA_chord("v", A), KA_chord("e", C),
     KA_chord("z", C), KA_chord("r", A), KA_chord("k", A), KA_chord("z", A),
     KA_empty, KA_chord("j", A), KA_empty, KA_chord("l", A),
     KA_chord(".", A), KA_chord(",", A) >>,
  (* Row 5 *)
  << KA_empty, KA_empty, KA_chord("[", A), KA_chord("f", C),
     KA_chord("n", C), KA_chord("g", C), KA_empty, KA_base("7"),
     KA_base("8"), KA_base("9"), KA_chord("=", A), KA_empty,
     KA_chord("o", A), KA_empty >>,
  (* Row 6 *)
  << KA_empty, KA_empty, KA_chord("]", A), KA_chord("p", C),
     KA_chord("q", C), KA_chord("w", C), KA_empty, KA_base("4"),
     KA_base("5"), KA_base("6"), KA_chord("t", A), KA_empty, KA_empty,
     KA_empty >>,
  (* Row 7 *)
  << KA_empty, KA_key("KEYPAD_ASTERIX"), KA_empty, KA_empty, KA_empty,
     KA_empty, KA_empty, KA_base("1"), KA_base("2"), KA_base("3"),
     KA_base("-"), KA_empty, KA_empty, KA_empty >>,
  (* Row 8 *)
  << KA_empty, KA_base("]"), KA_chord("'", A), KA_chord("x", C),
     KA_chord("a", C), KA_chord("j", C), KA_empty, KA_base("0"),
     KA_base("."), KA_chord("8", A), KA_chord("2", A), KA_empty,
     KA_key("KEY_ESC"), KA_empty >>,
  (* Row 9 *)
  << KA_empty, KA_base("["), KA_chord(";", A), KA_chord("b", C), KA_empty,
     KA_chord("s", A), KA_empty, KA_mod(MOD_LSHIFT), KA_chord("/", C),
     KA_empty, KA_key("KEY_ENTER"), KA_empty,
     KA_chord_key("KEY_BACKSPACE", A), KA_chord("y", A) >>
  >>

keymap(r, c) == keymapRows[r + 1][c + 1]

(***************************************************************************)
(* The switches the environment operates.  A board lists, in the row-major *)
(* order in which the loops of keyboardScan and keyboardReleaseAll visit   *)
(* them, the cells whose switches are ever closed.  Every other switch of  *)
(* the 10 x 14 matrix stays open: its cell keeps the all-false state        *)
(* keyboardInit gave it and no loop iteration changes it or dispatches for  *)
(* it, so the loops are modelled over the cells of the board.               *)
(***************************************************************************)
Boards ==
  { << <<0, 0>>, <<1, 0>> >>,    \* Alt + p, Alt + f : two chords share Alt
    << <<0, 3>>, <<9, 7>> >>,    \* Ctrl + o, Left Shift : chord and modifier key
    << <<0, 5>>, <<5, 7>> >>,    \* empty position, 7 : empty and base key
    << <<1, 0>>, <<2, 0>> >> }   \* Alt + f, Alt + f : two cells, one code

KeyOf(cell) == keymap(cell[1], cell[2])

(***************************************************************************)
(* State                                                                   *)
(***************************************************************************)
VARIABLES
  cellSeq,       \* the board: cells whose switches the environment operates
  rawState,      \* instant reads
  lastRaw,       \* previous raw
  debounced,     \* stable state
  lastChange,    \* time of last raw change
  refCtrl,       \* modifier reference counts
  refAlt,
  refShift,
  pressedCount,  \* count of currently pressed keys
  led,           \* level of LED_PIN
  down,          \* transport: codes currently pressed on the host
  now,           \* millis() read by the latest keyboardScan
  op,            \* the operation that ran last
  prevOp,        \* the operation that ran before it
  calls,         \* transport calls issued by the latest operation, in order
  events,        \* handler invocations of the latest operation, in order
  age,           \* history: ms from the latest observed raw edge of a cell to the latest scan
  evCount,       \* history: events a cell got from scans since its latest raw edge
  edgeDiff,      \* history: the latest raw edge of a cell moved raw away from debounced
  restart,       \* "none" until a host command restarts the board, then the kind of restart
  serialOut,     \* tag of the latest line written to Serial
  arg,           \* mask passed to the latest direct pressModifiers/releaseModifiers call
  driven,        \* rows whose pin is in OUTPUT mode
  maxDriven,     \* most rows in OUTPUT mode at once since the latest scan began
  lastKind       \* history: kind of the latest event dispatched for a cell, "none" before the first

vars == << cellSeq, rawState, lastRaw, debounced, lastChange, refCtrl, refAlt,
           refShift, pressedCount, led, down, now, op, prevOp, calls, events,
           age, evCount, edgeDiff, restart, serialOut, arg, driven, maxDriven,
           lastKind >>

\* State of the row pins
pinVars == << driven, maxDriven >>

\* State of the serial command channel
hostVars == << restart, serialOut >>

Cells == {cellSeq[i] : i \in 1..Len(cellSeq)}

\* unsigned 16-bit increment and decrement
Inc16(x) == (x + 1) % UINT16_MOD

Dec16(x) == (x + UINT16_MOD - 1) % UINT16_MOD

(***************************************************************************)
(* Keyboard transport                                                      *)
(***************************************************************************)
\* Every call is logged with the codes that were down when it was made.
KeyboardPress(s, code) ==
  [s EXCEPT !.down = @ \cup {code},
            !.calls = Append(@, [call |-> "press", code |-> code, before |-> s.down])]

KeyboardRelease(s, code) ==
  [s EXCEPT !.down = @ \ {code},
            !.calls = Append(@, [call |-> "release", code |-> code, before |-> s.down])]

KeyboardReleaseAllKeys(s) ==
  [s EXCEPT !.down = {},
            !.calls = Append(@, [call |-> "releaseAll", code |-> NO_KEY, before |-> s.down])]

digitalWriteLed(s, level) == [s EXCEPT !.led = level]

(***************************************************************************)
(* Modifier press/release helpers                                          *)
(***************************************************************************)
\* if (m & MOD_LCTRL) { if (refCtrl++ == 0) Keyboard.press(MODIFIERKEY_LEFT_CTRL); }
pressCtrl(s, m) ==
  IF ~HasMod(m, MOD_LCTRL) THEN s
  ELSE IF s.refCtrl = 0
       THEN KeyboardPress([s EXCEPT !.refCtrl = Inc16(@)], MODIFIERKEY_LEFT_CTRL)
       ELSE [s EXCEPT !.refCtrl = Inc16(@)]

pressAlt(s, m) ==
  IF ~HasMod(m, MOD_LALT) THEN s
  ELSE IF s.refAlt = 0
       THEN KeyboardPress([s EXCEPT !.refAlt = Inc16(@)], MODIFIERKEY_LEFT_ALT)
       ELSE [s EXCEPT !.refAlt = Inc16(@)]

pressShift(s, m) ==
  IF ~HasMod(m, MOD_LSHIFT) THEN s
  ELSE IF s.refShift = 0
       THEN KeyboardPress([s EXCEPT !.refShift = Inc16(@)], MODIFIERKEY_LEFT_SHIFT)
       ELSE [s EXCEPT !.refShift = Inc16(@)]

\* Variant: a held flag instead of a count (the counter stops at 1)
pressModifiers_Flag(s, m) ==
  [pressShift(pressAlt(pressCtrl(s, m), m), m)
     EXCEPT !.refCtrl = IF @ > 1 THEN 1 ELSE @,
            !.refAlt = IF @ > 1 THEN 1 ELSE @,
            !.refShift = IF @ > 1 THEN 1 ELSE @]

\* Variant: Keyboard.press on every call, whatever the counter says
pressModifiers_AlwaysPress(s, m) ==
  [pressShift(pressAlt(pressCtrl(
       [s EXCEPT !.refCtrl = 0, !.refAlt = 0, !.refShift = 0], m), m), m)
     EXCEPT !.refCtrl = IF HasMod(m, MOD_LCTRL) THEN Inc16(s.refCtrl) ELSE s.refCtrl,
            !.refAlt = IF HasMod(m, MOD_LALT) THEN Inc16(s.refAlt) ELSE s.refAlt,
            !.refShift = IF HasMod(m, MOD_LSHIFT) THEN Inc16(s.refShift) ELSE s.refShift]

pressModifiers(s, m) == pressShift(pressAlt(pressCtrl(s, m), m), m)

\* if (m & MOD_LCTRL) { if (refCtrl > 0 && --refCtrl == 0) Keyboard.release(MODIFIERKEY_LEFT_CTRL); }
releaseCtrl(s, m) ==
  IF ~(HasMod(m, MOD_LCTRL) /\ s.refCtrl > 0) THEN s
  ELSE IF Dec16(s.refCtrl) = 0
       THEN KeyboardRelease([s EXCEPT !.refCtrl = Dec16(@)], MODIFIERKEY_LEFT_CTRL)
       ELSE [s EXCEPT !.refCtrl = Dec16(@)]

releaseAlt(s, m) ==
  IF ~(HasMod(m, MOD_LALT) /\ s.refAlt > 0) THEN s
  ELSE IF Dec16(s.refAlt) = 0
       THEN KeyboardRelease([s EXCEPT !.refAlt = Dec16(@)], MODIFIERKEY_LEFT_ALT)
       ELSE [s EXCEPT !.refAlt = Dec16(@)]

releaseShift(s, m) ==
  IF ~(HasMod(m, MOD_LSHIFT) /\ s.refShift > 0) THEN s
  ELSE IF Dec16(s.refShift) = 0
       THEN KeyboardRelease([s EXCEPT !.refShift = Dec16(@)], MODIFIERKEY_LEFT_SHIFT)
       ELSE [s EXCEPT !.refShift = Dec16(@)]

\* Variant: no reference counting, the modifier is released by whichever
\* cell is released first
releaseModifiers_NoRef(s, m) ==
  releaseShift(releaseAlt(releaseCtrl(
    [s EXCEPT !.refCtrl = IF @ > 1 THEN 1 ELSE @,
              !.refAlt = IF @ > 1 THEN 1 ELSE @,
              !.refShift = IF @ > 1 THEN 1 ELSE @], m), m), m)

\* Variant: the decrement is not guarded by > 0
releaseModifiers_Unguarded(s, m) ==
  [releaseShift(releaseAlt(releaseCtrl(s, m), m), m)
     EXCEPT !.refCtrl = IF HasMod(m, MOD_LCTRL) /\ s.refCtrl = 0 THEN Dec16(0) ELSE @,
            !.refAlt = IF HasMod(m, MOD_LALT) /\ s.refAlt = 0 THEN Dec16(0) ELSE @,
            !.refShift = IF HasMod(m, MOD_LSHIFT) /\ s.refShift = 0 THEN Dec16(0) ELSE @]

releaseModifiers(s, m) == releaseShift(releaseAlt(releaseCtrl(s, m), m), m)

(***************************************************************************)
(* Handlers                                                                *)
(***************************************************************************)
\* if (++pressedCount == 1) digitalWrite(LED_PIN, HIGH);
CountPress(s) ==
  IF Inc16(s.pressedCount) = 1
  THEN digitalWriteLed([s EXCEPT !.pressedCount = Inc16(@)], HIGH)
  ELSE [s EXCEPT !.pressedCount = Inc16(@)]

\* Variant: the LED is never switched off
CountRelease_LedStaysOn(s) ==
  IF s.pressedCount > 0 THEN [s EXCEPT !.pressedCount = Dec16(@)] ELSE s

\* if (pressedCount > 0 && --pressedCount == 0) digitalWrite(LED_PIN, LOW);
CountRelease(s) ==
  IF s.pressedCount > 0
  THEN IF Dec16(s.pressedCount) = 0
       THEN digitalWriteLed([s EXCEPT !.pressedCount = Dec16(@)], LOW)
       ELSE [s EXCEPT !.pressedCount = Dec16(@)]
  ELSE s

\* Variant: base key pressed before its modifiers
pressAction_BaseFirst(s, ka) ==
  IF ~ka.valid THEN s
  ELSE IF ka.modifierOnly THEN CountPress(pressModifiers(s, ka.mods))
  ELSE CountPress(IF ka.mods # MOD_NONE
                  THEN pressModifiers(KeyboardPress(s, ka.baseKey), ka.mods)
                  ELSE KeyboardPress(s, ka.baseKey))

\* Variant: the modifier-only branch forgets to count the key
pressAction_ModUncounted(s, ka) ==
  IF ~ka.valid THEN s
  ELSE IF ka.modifierOnly THEN pressModifiers(s, ka.mods)
  ELSE CountPress(KeyboardPress(IF ka.mods # MOD_NONE THEN pressModifiers(s, ka.mods) ELSE s,
                                ka.baseKey))

\* Variant: no early return for an empty position, the key is counted
pressAction_CountsEmpty(s, ka) ==
  IF ka.modifierOnly THEN CountPress(pressModifiers(s, ka.mods))
  ELSE IF ~ka.valid THEN CountPress(s)
  ELSE CountPress(KeyboardPress(IF ka.mods # MOD_NONE THEN pressModifiers(s, ka.mods) ELSE s,
                                ka.baseKey))

\* handleKeyPress once ka = keymap[r][c] is looked up
pressAction(s, ka) ==
  IF ~ka.valid THEN s
  ELSE IF ka.modifierOnly THEN CountPress(pressModifiers(s, ka.mods))
  ELSE CountPress(KeyboardPress(IF ka.mods # MOD_NONE THEN pressModifiers(s, ka.mods) ELSE s,
                                ka.baseKey))

handleKeyPress(s, r, c) == pressAction(s, keymap(r, c))

\* handleKeyRelease once ka = keymap[r][c] is looked up
releaseAction(s, ka) ==
  IF ~ka.valid THEN s
  ELSE IF ka.modifierOnly THEN CountRelease(releaseModifiers(s, ka.mods))
  ELSE CountRelease(IF ka.mods # MOD_NONE
                    THEN releaseModifiers(KeyboardRelease(s, ka.baseKey), ka.mods)
                    ELSE KeyboardRelease(s, ka.baseKey))

handleKeyRelease(s, r, c) == releaseAction(s, keymap(r, c))

\* The record of one handler invocation kept in the events log: the cell,
\* the calls it issued (calls[first..last]), the counter and LED level it
\* left and the debounced grid it ran with (s before, t after the handler).
Logged(s, t, kind, cell) ==
  [t EXCEPT !.events = Append(@, [kind |-> kind, cell |-> cell,
                                  first |-> Len(s.calls) + 1,
                                  last |-> Len(t.calls),
                                  pressedCount |-> t.pressedCount,
                                  led |-> t.led,
                                  debounced |-> s.debounced])]

\* if (currRaw) handleKeyPress(r, c); else handleKeyRelease(r, c);
Dispatch(s, kind, cell) ==
  IF kind = "press"
  THEN Logged(s, handleKeyPress(s, cell[1], cell[2]), kind, cell)
  ELSE Logged(s, handleKeyRelease(s, cell[1], cell[2]), kind, cell)

(***************************************************************************)
(* GPIO helpers.  A row pin is named by its row index; a row is actively   *)
(* driven while its pin is in OUTPUT mode, Hi-Z while in INPUT mode.       *)
(***************************************************************************)
Max(a, b) == IF a > b THEN a ELSE b

Pins(rows) == [driven |-> rows, maxDriven |-> Cardinality(rows)]

pinMode(p, r, mode) ==
  IF mode = "OUTPUT"
  THEN [p EXCEPT !.driven = @ \cup {r},
                 !.maxDriven = Max(@, Cardinality(p.driven \cup {r}))]
  ELSE [p EXCEPT !.driven = @ \ {r}]

Rows == 0..(NUM_ROWS - 1)

\* A loop of pinMode(rowPins[r], INPUT) calls over the rows rs: rows only
\* leave the driven set on the way, so the loop is taken as one step
pinModeInputAll(p, rs) == [p EXCEPT !.driven = @ \ rs]

unselectAllRows(p) == pinModeInputAll(p, Rows)

\* Variant: the other rows are left as they are
selectRowLow_KeepOthers(p, row) == pinMode(p, row, "OUTPUT")

selectRowLow(p, row) == pinMode(pinModeInputAll(p, Rows \ {row}), row, "OUTPUT")

RECURSIVE SampleFrom(_, _)
SampleFrom(p, r) ==
  IF r >= NUM_ROWS THEN p ELSE SampleFrom(selectRowLow(p, r), r + 1)

\* 1) Scan all rows, then restore rows to Hi-Z
SampleRows(p) == unselectAllRows(SampleFrom(p, 0))

PinsResult(p) ==
  /\ driven' = p.driven
  /\ maxDriven' = p.maxDriven

(***************************************************************************)
(* keyboardInit                                                            *)
(***************************************************************************)
Init ==
  /\ cellSeq \in Boards
  /\ rawState = [cell \in Cells |-> FALSE]
  /\ lastRaw = [cell \in Cells |-> FALSE]
  /\ debounced = [cell \in Cells |-> FALSE]
  /\ lastChange = [cell \in Cells |-> 0]
  /\ refCtrl = 0
  /\ refAlt = 0
  /\ refShift = 0
  /\ pressedCount = 0
  /\ led = LOW
  /\ down = {}
  /\ now = 0
  /\ op = "keyboardInit"
  /\ prevOp = "boot"
  /\ calls = << >>
  /\ events = << >>
  /\ age = [cell \in Cells |-> 0]
  /\ evCount = [cell \in Cells |-> 0]
  /\ edgeDiff = [cell \in Cells |-> FALSE]
  /\ restart = "none"
  /\ serialOut = "Booting"
  /\ arg = MOD_NONE
  /\ driven = unselectAllRows(Pins({})).driven
  /\ maxDriven = 0
  /\ lastKind = [cell \in Cells |-> "none"]

\* The mutable state the loops work on
State ==
  [lastRaw |-> lastRaw, lastChange |-> lastChange, debounced |-> debounced,
   refCtrl |-> refCtrl, refAlt |-> refAlt, refShift |-> refShift,
   pressedCount |-> pressedCount, led |-> led, down |-> down,
   calls |-> << >>, events |-> << >>]

(***************************************************************************)
(* keyboardScan                                                            *)
(***************************************************************************)
\* uint32_t values are kept as their two's-complement reading (2^32 - 1 is
\* -1), which keeps every value within 32-bit integers.  The halves of the
\* unsigned value:
Lo16(v) == v % HALF_WORD

Hi16(v) == (v \div HALF_WORD) % HALF_WORD

\* (a - b) modulo 2^32, low half, borrow and high half
SubLo(a, b) == (Lo16(a) - Lo16(b)) % HALF_WORD

Borrow(a, b) == IF Lo16(a) < Lo16(b) THEN 1 ELSE 0

SubHi(a, b) == (Hi16(a) - Hi16(b) - Borrow(a, b)) % HALF_WORD

\* Variant: commits one millisecond early
ElapsedAtLeast_Early(t, since, ms) == (t - since < 0) \/ (t - since >= ms - 1)

\* Variant: > instead of >=
ElapsedAtLeast_Strict(t, since, ms) == (t - since < 0) \/ (t - since > ms)

\* Variant: now >= lastChange[r][c] + DEBOUNCE_MS, the sum wrapping at 2^32
ElapsedAtLeast_AddCompare(t, since, ms) ==
  \/ Hi16(t) > Hi16(since + ms)
  \/ Hi16(t) = Hi16(since + ms) /\ Lo16(t) >= Lo16(since + ms)

\* (now - lastChange[r][c]) >= DEBOUNCE_MS in unsigned 32-bit arithmetic:
\* the difference modulo 2^32 is computed half by half and compared with
\* ms, which is below 2^16.
ElapsedAtLeast(t, since, ms) == SubHi(t, since) > 0 \/ SubLo(t, since) >= ms

\* Variant: one timer for the whole matrix, reset by an edge on any cell
NoteEdge_SharedTimer(s, cell, currRaw, t) ==
  IF currRaw # s.lastRaw[cell]
  THEN [s EXCEPT !.lastRaw[cell] = currRaw,
                 !.lastChange = [other \in Cells |-> t]]
  ELSE s

\* if (currRaw != lastRaw[r][c]) { lastRaw[r][c] = currRaw; lastChange[r][c] = now; }
NoteEdge(s, cell, currRaw, t) ==
  IF currRaw # s.lastRaw[cell]
  THEN [s EXCEPT !.lastRaw[cell] = currRaw, !.lastChange[cell] = t]
  ELSE s

\* Variant: a commit dispatches its handler twice
Commit_Twice(s, cell, currRaw, t) ==
  IF s.debounced[cell] # currRaw /\ ElapsedAtLeast(t, s.lastChange[cell], DEBOUNCE_MS)
  THEN Dispatch(Dispatch([s EXCEPT !.debounced[cell] = currRaw],
                         IF currRaw THEN "press" ELSE "release", cell),
                IF currRaw THEN "press" ELSE "release", cell)
  ELSE s

\* if (debounced[r][c] != currRaw && (now - lastChange[r][c]) >= DEBOUNCE_MS) { ... }
Commit(s, cell, currRaw, t) ==
  IF s.debounced[cell] # currRaw /\ ElapsedAtLeast(t, s.lastChange[cell], DEBOUNCE_MS)
  THEN Dispatch([s EXCEPT !.debounced[cell] = currRaw],
                IF currRaw THEN "press" ELSE "release", cell)
  ELSE s

\* Body of the debounce loop for one cell
DebounceCell(s, cell, currRaw, t) == Commit(NoteEdge(s, cell, currRaw, t), cell, currRaw, t)

RECURSIVE DebounceFrom(_, _, _, _)
DebounceFrom(s, i, raw, t) ==
  IF i > Len(cellSeq) THEN s
  ELSE DebounceFrom(DebounceCell(s, cellSeq[i], raw[cellSeq[i]], t), i + 1, raw, t)

\* Samples the environment can produce
RawSamples == {[cell \in Cells |-> cell \in S] : S \in SUBSET Cells}

Min(a, b) == IF a < b THEN a ELSE b

EventsOf(evs, cell) == Cardinality({i \in 1..Len(evs) : evs[i].cell = cell})

\* Kind of the latest event of a cell among the first n of evs, otherwise
\* what was recorded before
RECURSIVE KindBefore(_, _, _)
KindBefore(evs, n, cell) ==
  IF n = 0 THEN lastKind[cell]
  ELSE IF evs[n].cell = cell THEN evs[n].kind
  ELSE KindBefore(evs, n - 1, cell)

\* The state a scan at time t with samples raw leaves, s being the result
\* of its debounce loop
ScanResult(s, raw, t) ==
  /\ now' = t
  /\ UNCHANGED << cellSeq, hostVars, arg >>
  /\ rawState' = raw
  /\ lastRaw' = s.lastRaw
  /\ lastChange' = s.lastChange
  /\ debounced' = s.debounced
  /\ refCtrl' = s.refCtrl
  /\ refAlt' = s.refAlt
  /\ refShift' = s.refShift
  /\ pressedCount' = s.pressedCount
  /\ led' = s.led
  /\ down' = s.down
  /\ calls' = s.calls
  /\ events' = s.events
  /\ prevOp' = op
  /\ op' = "keyboardScan"
  /\ age' = [cell \in Cells |->
              IF raw[cell] # lastRaw[cell] THEN 0 ELSE Min(age[cell] + (t - now), DEBOUNCE_MS)]
  /\ evCount' = [cell \in Cells |->
              Min((IF raw[cell] # lastRaw[cell] THEN 0 ELSE evCount[cell])
                    + EventsOf(s.events, cell), 2)]
  /\ edgeDiff' = [cell \in Cells |->
              IF raw[cell] # lastRaw[cell] THEN raw[cell] # debounced[cell] ELSE edgeDiff[cell]]
  /\ lastKind' = [cell \in Cells |-> KindBefore(s.events, Len(s.events), cell)]

\* keyboardScan from millis() to the end of the debounce loop, for a scan
\* that reads the samples raw, step ms after the previous one.  Its row
\* walk does not depend on either and is joined in Scan.
keyboardScan(raw, step) ==
  /\ now + step <= MaxNow
  /\ ScanResult(DebounceFrom(State, 1, raw, now + step), raw, now + step)

(***************************************************************************)
(* keyboardReleaseAll                                                      *)
(***************************************************************************)
\* Variant: the walk clears the grid without running the release handler
RECURSIVE ReleaseFrom_NoHandler(_, _)
ReleaseFrom_NoHandler(s, i) ==
  IF i > Len(cellSeq) THEN s
  ELSE IF s.debounced[cellSeq[i]]
       THEN ReleaseFrom_NoHandler([s EXCEPT !.debounced[cellSeq[i]] = FALSE], i + 1)
       ELSE ReleaseFrom_NoHandler(s, i + 1)

\* Variant: the walk runs the release handler but leaves debounced set
RECURSIVE ReleaseFrom_KeepDebounced(_, _)
ReleaseFrom_KeepDebounced(s, i) ==
  IF i > Len(cellSeq) THEN s
  ELSE IF s.debounced[cellSeq[i]]
       THEN ReleaseFrom_KeepDebounced(Dispatch(s, "release", cellSeq[i]), i + 1)
       ELSE ReleaseFrom_KeepDebounced(s, i + 1)

\* Variant: the walk releases every cell, pressed or not
RECURSIVE ReleaseFrom_Unconditional(_, _)
ReleaseFrom_Unconditional(s, i) ==
  IF i > Len(cellSeq) THEN s
  ELSE ReleaseFrom_Unconditional([Dispatch(s, "release", cellSeq[i])
                                    EXCEPT !.debounced[cellSeq[i]] = FALSE], i + 1)

\* if (debounced[r][c]) { handleKeyRelease(r, c); debounced[r][c] = false; }
RECURSIVE ReleaseFrom(_, _)
ReleaseFrom(s, i) ==
  IF i > Len(cellSeq) THEN s
  ELSE IF s.debounced[cellSeq[i]]
       THEN ReleaseFrom([Dispatch(s, "release", cellSeq[i])
                           EXCEPT !.debounced[cellSeq[i]] = FALSE], i + 1)
       ELSE ReleaseFrom(s, i + 1)

\* Ensure all modifiers are released
ForceCtrl(s) ==
  IF s.refCtrl # 0
  THEN [KeyboardRelease(s, MODIFIERKEY_LEFT_CTRL) EXCEPT !.refCtrl = 0] ELSE s

ForceAlt(s) ==
  IF s.refAlt # 0
  THEN [KeyboardRelease(s, MODIFIERKEY_LEFT_ALT) EXCEPT !.refAlt = 0] ELSE s

ForceShift(s) ==
  IF s.refShift # 0
  THEN [KeyboardRelease(s, MODIFIERKEY_LEFT_SHIFT) EXCEPT !.refShift = 0] ELSE s

ForceModifiers(s) == ForceShift(ForceAlt(ForceCtrl(s)))

ReleaseAllBody(s) ==
  digitalWriteLed([KeyboardReleaseAllKeys(ForceModifiers(ReleaseFrom(s, 1)))
                     EXCEPT !.pressedCount = 0], LOW)

\* Variant: the raw grids are cleared with the debounced grid
ReleaseAllResult_ClearsRaw(s) ==
  /\ debounced' = s.debounced
  /\ refCtrl' = s.refCtrl
  /\ refAlt' = s.refAlt
  /\ refShift' = s.refShift
  /\ pressedCount' = s.pressedCount
  /\ led' = s.led
  /\ down' = s.down
  /\ calls' = s.calls
  /\ events' = s.events
  /\ prevOp' = op
  /\ op' = "keyboardReleaseAll"
  /\ lastKind' = [cell \in Cells |-> KindBefore(s.events, Len(s.events), cell)]
  /\ rawState' = [cell \in Cells |-> FALSE]
  /\ lastRaw' = [cell \in Cells |-> FALSE]
  /\ UNCHANGED << cellSeq, lastChange, now, age, evCount, edgeDiff, hostVars, arg, pinVars >>

\* The state keyboardReleaseAll leaves, s being the result of its body
ReleaseAllResult(s) ==
  /\ debounced' = s.debounced
  /\ refCtrl' = s.refCtrl
  /\ refAlt' = s.refAlt
  /\ refShift' = s.refShift
  /\ pressedCount' = s.pressedCount
  /\ led' = s.led
  /\ down' = s.down
  /\ calls' = s.calls
  /\ events' = s.events
  /\ prevOp' = op
  /\ op' = "keyboardReleaseAll"
  /\ lastKind' = [cell \in Cells |-> KindBefore(s.events, Len(s.events), cell)]
  /\ UNCHANGED << cellSeq, rawState, lastRaw, lastChange, now, age, evCount, edgeDiff,
                  hostVars, arg, pinVars >>

keyboardReleaseAll == ReleaseAllResult(ReleaseAllBody(State))

(***************************************************************************)
(* Specification of the firmware: loop() scans forever; keyboardReleaseAll *)
(* may be called between two scans.                                        *)
(***************************************************************************)
\* Every scan ends with delay(SCAN_INTERVAL_MS), so the next one reads a
\* millis() value at least that much later; how much later is up to the
\* environment (serial polling between scans), up to MaxStep here.
Scan ==
  /\ PinsResult(SampleRows(Pins(driven)))
  /\ \E raw \in RawSamples : \E step \in SCAN_INTERVAL_MS..MaxStep : keyboardScan(raw, step)

Next == Scan \/ keyboardReleaseAll

Spec == Init /\ [][Next]_vars

\* The firmware as loop() runs it: keyboardScan only
SpecScan == Init /\ [][Scan]_vars

(***************************************************************************)
(* The firmware around the wrap of millis(): the board has been scanned    *)
(* idle since keyboardInit, for 2^32 - WrapLead ms, and goes on scanning.  *)
(***************************************************************************)
InitWrap ==
  /\ cellSeq \in Boards
  /\ rawState = [cell \in Cells |-> FALSE]
  /\ lastRaw = [cell \in Cells |-> FALSE]
  /\ debounced = [cell \in Cells |-> FALSE]
  /\ lastChange = [cell \in Cells |-> 0]
  /\ refCtrl = 0
  /\ refAlt = 0
  /\ refShift = 0
  /\ pressedCount = 0
  /\ led = LOW
  /\ down = {}
  /\ now = -WrapLead
  /\ op = "keyboardScan"
  /\ prevOp = "keyboardScan"
  /\ calls = << >>
  /\ events = << >>
  /\ age = [cell \in Cells |-> DEBOUNCE_MS]
  /\ evCount = [cell \in Cells |-> 0]
  /\ edgeDiff = [cell \in Cells |-> FALSE]
  /\ restart = "none"
  /\ serialOut = "Booting"
  /\ arg = MOD_NONE
  /\ driven = {}
  /\ maxDriven = 1
  /\ lastKind = [cell \in Cells |-> "none"]

SpecWrap == InitWrap /\ [][Scan]_vars

(***************************************************************************)
(* The serial command channel: loop() calls checkSerialForReboot after     *)
(* every keyboardScan; a complete line is handed to processSerialCommand.  *)
(***************************************************************************)
Commands == {"IDENTIFY", "REBOOT_BOOTLOADER", "REBOOT_NORMAL", "HELLO"}

\* _reboot_Teensyduino_() and SCB_AIRCR = 0x05FA0004 end the program
RestartOf(cmd) ==
  IF cmd = "REBOOT_BOOTLOADER" THEN "bootloader"
  ELSE IF cmd = "REBOOT_NORMAL" THEN "normal"
  ELSE "none"

SerialTagOf(cmd) ==
  IF cmd = "IDENTIFY" THEN "[IDENT]"
  ELSE IF cmd \in {"REBOOT_BOOTLOADER", "REBOOT_NORMAL"} THEN "[REBOOT]"
  ELSE "[REBOOT] Unknown command"

processSerialCommand(cmd) ==
  /\ serialOut' = SerialTagOf(cmd)
  /\ restart' = RestartOf(cmd)
  /\ prevOp' = op
  /\ op' = "processSerialCommand"
  /\ calls' = << >>
  /\ events' = << >>
  /\ UNCHANGED << cellSeq, rawState, lastRaw, debounced, lastChange, refCtrl, refAlt,
                  refShift, pressedCount, led, down, now, age, evCount, edgeDiff, arg,
                  pinVars, lastKind >>

checkSerialForReboot == \E cmd \in Commands : processSerialCommand(cmd)

\* loop() with the serial channel compiled in; nothing runs after a restart
HostNext == restart = "none" /\ (Scan \/ checkSerialForReboot)

SpecHost == Init /\ [][HostNext]_vars

(***************************************************************************)
(* The modifier ledger on its own: any sequence of pressModifiers and      *)
(* releaseModifiers calls, with any mask.                                  *)
(***************************************************************************)
ModMasks == 0..(MOD_LCTRL + MOD_LALT + MOD_LSHIFT)

LedgerResult(s, name, m) ==
  /\ arg' = m
  /\ refCtrl' = s.refCtrl
  /\ refAlt' = s.refAlt
  /\ refShift' = s.refShift
  /\ down' = s.down
  /\ calls' = s.calls
  /\ events' = s.events
  /\ prevOp' = op
  /\ op' = name
  /\ UNCHANGED << cellSeq, rawState, lastRaw, debounced, lastChange, pressedCount,
                  led, now, age, evCount, edgeDiff, hostVars, pinVars, lastKind >>

Hold(m) ==
  /\ HasMod(m, MOD_LCTRL) => refCtrl < MaxRef
  /\ HasMod(m, MOD_LALT) => refAlt < MaxRef
  /\ HasMod(m, MOD_LSHIFT) => refShift < MaxRef
  /\ LedgerResult(pressModifiers(State, m), "pressModifiers", m)

Unhold(m) == LedgerResult(releaseModifiers(State, m), "releaseModifiers", m)

LedgerNext == \E m \in ModMasks : Hold(m) \/ Unhold(m)

SpecLedger == Init /\ [][LedgerNext]_vars

(***************************************************************************)
(* The handlers on their own: any sequence of handleKeyPress,              *)
(* handleKeyRelease and releaseModifiers calls, whether or not a matching  *)
(* press came first.                                                       *)
(***************************************************************************)
HandlerResult(s, name) ==
  /\ refCtrl' = s.refCtrl
  /\ refAlt' = s.refAlt
  /\ refShift' = s.refShift
  /\ pressedCount' = s.pressedCount
  /\ led' = s.led
  /\ down' = s.down
  /\ calls' = s.calls
  /\ events' = s.events
  /\ prevOp' = op
  /\ op' = name
  /\ lastKind' = [cell \in Cells |-> KindBefore(s.events, Len(s.events), cell)]
  /\ UNCHANGED << cellSeq, rawState, lastRaw, debounced, lastChange, now, age, evCount,
                  edgeDiff, hostVars, arg, pinVars >>

PressCell(cell) ==
  /\ pressedCount < MaxRef
  /\ HasMod(KeyOf(cell).mods, MOD_LCTRL) => refCtrl < MaxRef
  /\ HasMod(KeyOf(cell).mods, MOD_LALT) => refAlt < MaxRef
  /\ HasMod(KeyOf(cell).mods, MOD_LSHIFT) => refShift < MaxRef
  /\ HandlerResult(Dispatch(State, "press", cell), "handleKeyPress")

ReleaseCell(cell) == HandlerResult(Dispatch(State, "release", cell), "handleKeyRelease")

HandlerNext ==
  \/ \E m \in ModMasks : Unhold(m)
  \/ \E cell \in Cells : PressCell(cell) \/ ReleaseCell(cell)

SpecHandlers == Init /\ [][HandlerNext]_vars


(***************************************************************************)
(* Vocabulary of the properties                                            *)
(***************************************************************************)
ModBits == {MOD_LCTRL, MOD_LALT, MOD_LSHIFT}

ModCode(bit) ==
  CASE bit = MOD_LCTRL -> MODIFIERKEY_LEFT_CTRL
    [] bit = MOD_LALT -> MODIFIERKEY_LEFT_ALT
    [] bit = MOD_LSHIFT -> MODIFIERKEY_LEFT_SHIFT

ModCodes(m) == {ModCode(bit) : bit \in {b \in ModBits : HasMod(m, b)}}

RefOf(bit) ==
  CASE bit = MOD_LCTRL -> refCtrl
    [] bit = MOD_LALT -> refAlt
    [] bit = MOD_LSHIFT -> refShift

\* cells of a debounced grid whose key action includes the modifier
Holders(grid, bit) == {cell \in Cells : grid[cell] /\ HasMod(KeyOf(cell).mods, bit)}

IsChord(ka) == ka.valid /\ ~ka.modifierOnly /\ ka.mods # MOD_NONE

HasBaseKey(ka) == ka.valid /\ ~ka.modifierOnly

CallCount(cs, kind, code) ==
  Cardinality({i \in 1..Len(cs) : cs[i].call = kind /\ cs[i].code = code})

AllZero == refCtrl = 0 /\ refAlt = 0 /\ refShift = 0 /\ pressedCount = 0

(***************************************************************************)
(* C1: after every completed keyboardScan or keyboardReleaseAll each       *)
(* modifier counter equals the number of debounced-pressed cells whose key *)
(* action includes that modifier (so it never wraps below zero).           *)
(***************************************************************************)
C1_CountersMatchDebounced ==
  \A bit \in ModBits :
    /\ RefOf(bit) = Cardinality(Holders(debounced, bit))
    /\ RefOf(bit) >= 0

C1_TwoHolders ==
  /\ op = "keyboardScan"
  /\ refAlt = 2
  /\ Cardinality(Holders(debounced, MOD_LALT)) = 2

(***************************************************************************)
(* C2: a modifier is down on the transport exactly while some              *)
(* debounced-pressed cell needs it, and a transport release of a modifier  *)
(* is issued only by the release of a cell that needs it, at a moment when *)
(* no other debounced-pressed cell needs it.                               *)
(***************************************************************************)
C2_ModifierHeldWhileNeeded ==
  /\ \A bit \in ModBits : (ModCode(bit) \in down) <=> (Holders(debounced, bit) # {})
  /\ \A bit \in ModBits : \A i \in 1..Len(calls) :
       (calls[i].call = "release" /\ calls[i].code = ModCode(bit)) =>
         \E j \in 1..Len(events) :
           /\ events[j].kind = "release"
           /\ events[j].first <= i /\ i <= events[j].last
           /\ HasMod(KeyOf(events[j].cell).mods, bit)
           /\ Holders(events[j].debounced, bit) \ {events[j].cell} = {}

C2_ReleasedOneOfTwo ==
  /\ op = "keyboardScan"
  /\ \E j \in 1..Len(events) :
       /\ events[j].kind = "release"
       /\ HasMod(KeyOf(events[j].cell).mods, MOD_LALT)
  /\ Holders(debounced, MOD_LALT) # {}
  /\ MODIFIERKEY_LEFT_ALT \in down
  /\ CallCount(calls, "release", MODIFIERKEY_LEFT_ALT) = 0

(***************************************************************************)
(* C3: a pressModifiers / releaseModifiers call issues a transport press   *)
(* of a modifier exactly when it moves that modifier's counter from 0 to   *)
(* 1, a transport release exactly when it moves it from 1 to 0, and no     *)
(* other transport call.                                                   *)
(***************************************************************************)
C3_TransportOnlyOnEdge ==
  [][ /\ \A bit \in ModBits :
           /\ CallCount(calls', "press", ModCode(bit)) =
                (IF RefOf(bit) = 0 /\ RefOf(bit)' = 1 THEN 1 ELSE 0)
           /\ CallCount(calls', "release", ModCode(bit)) =
                (IF RefOf(bit) = 1 /\ RefOf(bit)' = 0 THEN 1 ELSE 0)
      /\ \A i \in 1..Len(calls') : calls'[i].code \in {ModCode(bit) : bit \in ModBits}
    ]_vars

C3_SecondHoldSilent ==
  /\ op = "pressModifiers"
  /\ refAlt = 2
  /\ calls = << >>

(***************************************************************************)
(* C4: a scan emits an event for a cell only if the sampled raw value of   *)
(* the cell has not changed between consecutive scans for at least         *)
(* DEBOUNCE_MS; a cell whose raw value changed more recently emits nothing.*)
(***************************************************************************)
C4_NoEventDuringChatter ==
  op = "keyboardScan" =>
    \A j \in 1..Len(events) : age[events[j].cell] >= DEBOUNCE_MS

C4_ChatterRejected ==
  /\ op = "keyboardScan"
  /\ events # << >>
  /\ \E cell \in Cells :
       /\ lastRaw[cell] # debounced[cell]
       /\ age[cell] > 0
       /\ age[cell] < DEBOUNCE_MS

(***************************************************************************)
(* C5: under scans alone, once the raw value of a cell has been stable for *)
(* DEBOUNCE_MS the cell is committed (debounced = raw); it got exactly one *)
(* event since the edge if the edge moved raw away from debounced, none    *)
(* otherwise, and none before the interval elapsed; the event is a press   *)
(* if raw is true and a release otherwise.                                 *)
(***************************************************************************)
C5_StableCommitsOnce ==
  /\ \A cell \in Cells :
       IF age[cell] >= DEBOUNCE_MS
       THEN /\ debounced[cell] = lastRaw[cell]
            /\ evCount[cell] = (IF edgeDiff[cell] THEN 1 ELSE 0)
       ELSE evCount[cell] = 0
  /\ \A j \in 1..Len(events) :
       events[j].kind = (IF rawState[events[j].cell] THEN "press" ELSE "release")

C5_CommittedAndQuiet ==
  /\ op = "keyboardScan"
  /\ events = << >>
  /\ \E cell \in Cells :
       /\ age[cell] >= DEBOUNCE_MS
       /\ edgeDiff[cell]
       /\ evCount[cell] = 1
       /\ debounced[cell]

(***************************************************************************)
(* C6: the press of a chord cell ends with the transport press of its base *)
(* key, made while its modifiers are down, any modifier press coming       *)
(* before it; the release of a chord cell starts with the transport        *)
(* release of its base key, made while its modifiers are still down, any   *)
(* modifier release coming after it.                                       *)
(***************************************************************************)
C6_ChordOrdering ==
  \A j \in 1..Len(events) :
    LET e == events[j]
        ka == KeyOf(e.cell)
    IN  IsChord(ka) =>
          /\ e.first <= e.last
          /\ IF e.kind = "press"
             THEN /\ calls[e.last].call = "press"
                  /\ calls[e.last].code = ka.baseKey
                  /\ ModCodes(ka.mods) \subseteq calls[e.last].before
                  /\ \A i \in e.first..(e.last - 1) :
                       calls[i].call = "press" /\ calls[i].code \in ModCodes(ka.mods)
             ELSE /\ calls[e.first].call = "release"
                  /\ calls[e.first].code = ka.baseKey
                  /\ ModCodes(ka.mods) \subseteq calls[e.first].before
                  /\ \A i \in (e.first + 1)..e.last :
                       calls[i].call = "release" /\ calls[i].code \in ModCodes(ka.mods)

C6_AssertThenPress ==
  \E j \in 1..Len(events) :
    /\ events[j].kind = "press"
    /\ IsChord(KeyOf(events[j].cell))
    /\ events[j].last = events[j].first + 1
    /\ calls[events[j].first].code = MODIFIERKEY_LEFT_ALT

(***************************************************************************)
(* C7 as stated: pressedCount equals the number of cells whose debounced   *)
(* value is true, cells with an Empty key action included.                 *)
(***************************************************************************)
C7_CountsEveryCell ==
  pressedCount = Cardinality({cell \in Cells : debounced[cell]})

(***************************************************************************)
(* C7 amended: pressedCount equals the number of cells whose debounced     *)
(* value is true and whose key action is not Empty.                        *)
(***************************************************************************)
C7_CountsValidCells ==
  pressedCount = Cardinality({cell \in Cells : debounced[cell] /\ KeyOf(cell).valid})

C7_EmptyAndKeyDown ==
  /\ \E cell \in Cells : debounced[cell] /\ ~KeyOf(cell).valid
  /\ \E cell \in Cells : debounced[cell] /\ KeyOf(cell).valid
  /\ pressedCount = 1

(***************************************************************************)
(* C8: after keyboardInit, after every handler invocation and after every  *)
(* keyboardReleaseAll the LED is on iff pressedCount > 0.                  *)
(***************************************************************************)
C8_LedIffPressed ==
  /\ (led = HIGH) <=> (pressedCount > 0)
  /\ \A j \in 1..Len(events) : (events[j].led = HIGH) <=> (events[j].pressedCount > 0)

C8_LedWentOff ==
  /\ op = "keyboardScan"
  /\ \E j \in 1..Len(events) :
       /\ events[j].kind = "release"
       /\ events[j].pressedCount = 0
       /\ events[j].led = LOW
       /\ KeyOf(events[j].cell).valid

(***************************************************************************)
(* C9: keyboardReleaseAll leaves no cell debounced, all counters and       *)
(* pressedCount zero, the LED off and nothing down on the transport; it    *)
(* runs handleKeyRelease once for every cell that was debounced, in        *)
(* row-major order (base key release first, then the modifier releases),   *)
(* and its last transport call, and only that one, is releaseAll.          *)
(***************************************************************************)
C9_ReleaseAllClears ==
  [][ op' = "keyboardReleaseAll" =>
        LET WasDown(cell) == debounced[cell]
            n == Len(calls')
        IN  /\ \A cell \in Cells : ~debounced'[cell]
            /\ AllZero'
            /\ led' = LOW
            /\ down' = {}
            /\ n >= 1
            /\ calls'[n].call = "releaseAll"
            /\ \A i \in 1..(n - 1) :
                 /\ calls'[i].call = "release"
                 /\ \E j \in 1..Len(events') : events'[j].first <= i /\ i <= events'[j].last
            /\ [j \in 1..Len(events') |-> events'[j].cell] = SelectSeq(cellSeq, WasDown)
            /\ \A j \in 1..Len(events') :
                 LET e == events'[j]
                     ka == KeyOf(e.cell)
                 IN  /\ e.kind = "release"
                     /\ IF ka.valid /\ ~ka.modifierOnly
                        THEN /\ e.first <= e.last
                             /\ calls'[e.first].code = ka.baseKey
                             /\ \A i \in (e.first + 1)..e.last :
                                  calls'[i].code \in ModCodes(ka.mods)
                        ELSE \A i \in e.first..e.last :
                               calls'[i].code \in ModCodes(ka.mods)
    ]_vars

C9_ReleasedTwoCells ==
  /\ op = "keyboardReleaseAll"
  /\ Len(events) = 2
  /\ Len(calls) >= 4

(***************************************************************************)
(* C10: a keyboardReleaseAll that directly follows a keyboardReleaseAll    *)
(* runs no handler and issues the transport releaseAll and nothing else,   *)
(* leaving all counters and pressedCount at zero.                          *)
(***************************************************************************)
C10_SecondReleaseAllSilent ==
  (op = "keyboardReleaseAll" /\ prevOp = "keyboardReleaseAll") =>
    /\ events = << >>
    /\ Len(calls) = 1
    /\ calls[1].call = "releaseAll"
    /\ AllZero

C10_TwiceWhileKeyHeld ==
  /\ op = "keyboardReleaseAll"
  /\ prevOp = "keyboardReleaseAll"
  /\ \E cell \in Cells : lastRaw[cell] /\ KeyOf(cell).valid /\ age[cell] >= DEBOUNCE_MS

(***************************************************************************)
(* C11: a handler invocation for a cell whose key action is Empty issues   *)
(* no transport call and leaves pressedCount and the LED as they were; a   *)
(* scan whose only events are for Empty cells issues no transport call and *)
(* leaves the modifier counters, pressedCount, the LED and the transport   *)
(* unchanged.                                                              *)
(***************************************************************************)
C11_EmptyCellNoEffect ==
  [][ /\ \A j \in 1..Len(events') :
           ~KeyOf(events'[j].cell).valid =>
             /\ events'[j].last < events'[j].first
             /\ events'[j].pressedCount =
                  (IF j = 1 THEN pressedCount ELSE events'[j - 1].pressedCount)
             /\ events'[j].led = (IF j = 1 THEN led ELSE events'[j - 1].led)
      /\ (op' = "keyboardScan" /\ \A j \in 1..Len(events') : ~KeyOf(events'[j].cell).valid) =>
           /\ calls' = << >>
           /\ down' = down
           /\ refCtrl' = refCtrl /\ refAlt' = refAlt /\ refShift' = refShift
           /\ pressedCount' = pressedCount
           /\ led' = led
    ]_vars

C11_EmptyReleased ==
  /\ op = "keyboardScan"
  /\ Len(events) = 1
  /\ events[1].kind = "release"
  /\ ~KeyOf(events[1].cell).valid
  /\ \E cell \in Cells : debounced[cell] /\ KeyOf(cell).valid

(***************************************************************************)
(* C12: when a host command restarts the board (REBOOT_BOOTLOADER or       *)
(* REBOOT_NORMAL), keyboardReleaseAll has run before the restart, so no    *)
(* key or modifier is down on the transport at the moment of reboot.       *)
(***************************************************************************)
C12_NothingDownAtReboot ==
  restart # "none" => down = {}

\* What processSerialCommand does: it restarts with the transport as the
\* latest scan left it
C12_RebootKeepsTransport ==
  [][restart' # "none" => (down' = down /\ debounced' = debounced /\ op' = "processSerialCommand")]_vars

C12_RebootWithKeyDown ==
  /\ restart = "normal"
  /\ down # {}
  /\ \E cell \in Cells : debounced[cell]

(***************************************************************************)
(* C13: releaseModifiers on a modifier whose counter is already zero is a  *)
(* no-op: the counter stays at zero (the unsigned counter does not wrap)   *)
(* and no transport release is issued for that modifier, whether it is     *)
(* called directly or through handleKeyRelease; and handleKeyRelease with  *)
(* pressedCount at zero leaves pressedCount at zero and the LED as it was. *)
(***************************************************************************)
C13_UnholdAtZeroNoOp ==
  [][ /\ op' = "releaseModifiers" =>
           \A bit \in ModBits :
             (HasMod(arg', bit) /\ RefOf(bit) = 0) =>
               /\ RefOf(bit)' = 0
               /\ CallCount(calls', "release", ModCode(bit)) = 0
               /\ (ModCode(bit) \in down') = (ModCode(bit) \in down)
      /\ op' = "handleKeyRelease" =>
           /\ \A bit \in ModBits :
                (HasMod(KeyOf(events'[1].cell).mods, bit) /\ RefOf(bit) = 0) =>
                  /\ RefOf(bit)' = 0
                  /\ CallCount(calls', "release", ModCode(bit)) = 0
           /\ pressedCount = 0 => (pressedCount' = 0 /\ led' = led)
    ]_vars

C13_UnmatchedUnhold ==
  /\ op = "handleKeyRelease"
  /\ prevOp = "releaseModifiers"
  /\ arg = MOD_LALT
  /\ IsChord(KeyOf(events[1].cell))
  /\ AllZero
  /\ led = LOW

(***************************************************************************)
(* C14: at every point of a scan at most one row is actively driven, and   *)
(* no row is driven once the sampling loop has ended (during dispatch,     *)
(* pacing, between scans) nor after keyboardInit.                          *)
(***************************************************************************)
C14_AtMostOneRowDriven ==
  /\ driven = {}
  /\ maxDriven <= 1

C14_AllRowsWalked ==
  /\ op = "keyboardScan"
  /\ driven = {}
  /\ maxDriven = 1

(***************************************************************************)
(* C15: within one keyboardScan each cell is committed at most once and    *)
(* emits at most one event, whatever the samples and the time: one event   *)
(* if its debounced value changed, none otherwise.                         *)
(***************************************************************************)
C15_OneEventPerCellPerScan ==
  [][op' = "keyboardScan" =>
       \A cell \in Cells :
         EventsOf(events', cell) = (IF debounced'[cell] # debounced[cell] THEN 1 ELSE 0)
    ]_vars

C15_TwoCellsCommitted ==
  /\ op = "keyboardScan"
  /\ Len(events) = 2
  /\ events[1].cell # events[2].cell

(***************************************************************************)
(* C16: for each cell, over any sequence of keyboardScan and               *)
(* keyboardReleaseAll calls, the dispatched events alternate starting with *)
(* a press: a release is only dispatched for a cell whose latest event was *)
(* a press, a press only for a cell with no event yet or whose latest      *)
(* event was a release.                                                    *)
(***************************************************************************)
C16_EventsAlternate ==
  [][\A j \in 1..Len(events') :
       IF events'[j].kind = "release"
       THEN KindBefore(events', j - 1, events'[j].cell) = "press"
       ELSE KindBefore(events', j - 1, events'[j].cell) \in {"none", "release"}
    ]_vars

C16_PressedAgainAfterReleaseAll ==
  /\ op = "keyboardScan"
  /\ prevOp = "keyboardReleaseAll"
  /\ Len(events) = 2
  /\ \A j \in 1..2 : events[j].kind = "press"
  /\ evCount[events[1].cell] = 2

(***************************************************************************)
(* C17: debounce timers are per cell and independent.  In every scan a     *)
(* cell's previous-raw value and last-change time are rewritten exactly    *)
(* when its own raw value changed, and the cell commits exactly when its   *)
(* own raw value differs from its debounced value and its own latest raw   *)
(* change is at least DEBOUNCE_MS old, whatever the other cells do in the  *)
(* same scan.                                                              *)
(***************************************************************************)
C17_TimersIndependent ==
  [][op' = "keyboardScan" =>
       \A cell \in Cells :
         /\ lastRaw'[cell] = rawState'[cell]
         /\ lastChange'[cell] =
              (IF rawState'[cell] # lastRaw[cell] THEN now' ELSE lastChange[cell])
         /\ (debounced'[cell] # debounced[cell]) =
              (rawState'[cell] # debounced[cell] /\ age'[cell] >= DEBOUNCE_MS)
    ]_vars

C17_CommitBesideBounce ==
  /\ op = "keyboardScan"
  /\ Len(events) = 1
  /\ \E other \in Cells :
       /\ other # events[1].cell
       /\ age[other] = 0
       /\ lastChange[other] = now
       /\ rawState[other] # debounced[other]
       /\ lastChange[events[1].cell] < now

(***************************************************************************)
(* C18: after every completed keyboardScan, for every base key code k of   *)
(* the board, the transport holds k down if and only if at least one       *)
(* debounced-pressed cell has a Base or Chord action with code k; so when  *)
(* two cells with the same code are held and one is released, k stays down *)
(* until the other is released.                                            *)
(***************************************************************************)
C18_BaseKeyDownIffHeld ==
  op = "keyboardScan" =>
    \A cell \in Cells :
      HasBaseKey(KeyOf(cell)) =>
        ((KeyOf(cell).baseKey \in down) =
           (\E other \in Cells :
              /\ debounced[other]
              /\ HasBaseKey(KeyOf(other))
              /\ KeyOf(other).baseKey = KeyOf(cell).baseKey))

\* What the code does: Keyboard.release(ka.baseKey) is not counted, the
\* release of either cell lifts the shared code
C18_SharedCodeLifted ==
  /\ op = "keyboardScan"
  /\ \E cell \in Cells :
       /\ debounced[cell]
       /\ HasBaseKey(KeyOf(cell))
       /\ KeyOf(cell).baseKey \notin down
       /\ MODIFIERKEY_LEFT_ALT \in down

(***************************************************************************)
(* C19: keyboardReleaseAll clears only the debounced grid, not the raw,    *)
(* previous-raw and last-change state; a non-Empty key that is still held  *)
(* (raw stays true, its latest raw change at least DEBOUNCE_MS old) is     *)
(* committed again by the next keyboardScan, which re-emits its press      *)
(* (modifier assert, then base key press) without a new raw edge.          *)
(***************************************************************************)
C19_RepressAfterReleaseAll ==
  [][ /\ op' = "keyboardReleaseAll" =>
           /\ rawState' = rawState
           /\ lastRaw' = lastRaw
           /\ lastChange' = lastChange
           /\ \A cell \in Cells : ~debounced'[cell]
      /\ (op = "keyboardReleaseAll" /\ op' = "keyboardScan") =>
           \A cell \in Cells :
             (KeyOf(cell).valid /\ lastRaw[cell] /\ rawState'[cell] /\ age'[cell] >= DEBOUNCE_MS) =>
               /\ lastChange'[cell] = lastChange[cell]
               /\ debounced'[cell]
               /\ \E j \in 1..Len(events') :
                    /\ events'[j].cell = cell
                    /\ events'[j].kind = "press"
                    /\ HasBaseKey(KeyOf(cell)) =>
                         /\ calls'[events'[j].last].call = "press"
                         /\ calls'[events'[j].last].code = KeyOf(cell).baseKey
                    /\ \A bit \in ModBits :
                         (HasMod(KeyOf(cell).mods, bit) /\ RefOf(bit) = 0 /\ Holders(events'[j].debounced, bit) = {}) =>
                           \E i \in events'[j].first..events'[j].last :
                             /\ calls'[i].call = "press"
                             /\ calls'[i].code = ModCode(bit)
                             /\ HasBaseKey(KeyOf(cell)) => i < events'[j].last
                    /\ ModCodes(KeyOf(cell).mods) \subseteq down'
    ]_vars

C19_HeldKeyPressedAgain ==
  /\ op = "keyboardScan"
  /\ prevOp = "keyboardReleaseAll"
  /\ \E j \in 1..Len(events) :
       /\ events[j].kind = "press"
       /\ IsChord(KeyOf(events[j].cell))
       /\ lastChange[events[j].cell] < now - DEBOUNCE_MS
       /\ evCount[events[j].cell] = 2
       /\ KeyOf(events[j].cell).baseKey \in down

(***************************************************************************)
(* C20: the elapsed-time test (now - lastChange) >= DEBOUNCE_MS is taken   *)
(* modulo 2^32, so when millis() wraps between a raw edge and a later scan *)
(* the elapsed time is still the true number of ms since the edge: for a   *)
(* cell whose latest raw edge was seen before the wrap, the test agrees    *)
(* with the true age of the edge in every scan before and after the wrap,  *)
(* and the cell commits exactly when its raw value differs from debounced  *)
(* and that age is at least DEBOUNCE_MS.                                   *)
(***************************************************************************)
C20_ElapsedAcrossWrap ==
  [][op' = "keyboardScan" =>
       \A cell \in Cells :
         lastChange'[cell] < 0 =>
           /\ \A ms \in 1..DEBOUNCE_MS :
                (SubHi(now', lastChange'[cell]) > 0 \/ SubLo(now', lastChange'[cell]) >= ms)
                  = (age'[cell] >= ms)
           /\ EventsOf(events', cell) =
                (IF rawState'[cell] # debounced[cell] /\ age'[cell] >= DEBOUNCE_MS THEN 1 ELSE 0)
    ]_vars

C20_CommitJustAfterWrap ==
  /\ op = "keyboardScan"
  /\ now \in 0..(DEBOUNCE_MS - 1)
  /\ \E j \in 1..Len(events) :
       /\ events[j].kind = "press"
       /\ lastChange[events[j].cell] = now - DEBOUNCE_MS
       /\ Hi16(lastChange[events[j].cell]) = HALF_WORD - 1
       /\ Hi16(now) = 0

====
